---- MODULE Spec2Model ----
(***************************************************************************)
(* A model of 5.EasyTargetScan_0.2.py: main() extracts miRNA seeds into a  *)
(* shared temp table, then for every target (UTR) record writes a one-row  *)
(* target table, runs the external predictor, parses its output into       *)
(* features, renders an image, and finally removes the two temp files.     *)
(*                                                                         *)
(* Text is modelled as sequences of one-character strings (identifiers,    *)
(* nucleotide sequences, file names) and a line of a predictor output file *)
(* as the sequence of its tab-separated columns before strip().            *)
(* The file system, the FASTA readers, the predictor and the plotting      *)
(* library are the environment: every call into them that can fail has a   *)
(* failing and a succeeding outcome.                                       *)
(***************************************************************************)
EXTENDS Integers, Sequences, FiniteSets, TLC

VARIABLES
    mirs,            \* the records SeqIO.parse(mirna, "fasta") yields
    utrs,            \* the records SeqIO.parse(utr_Database, "fasta") yields
    predictorRows,   \* the data rows the predictor of this run may write
    pc,              \* position of main()
    mi,              \* number of miRNA records read so far
    ui,              \* number of target records read so far (utr = utrs[ui])
    seedFile,        \* miR_seeds_temp.txt
    utrFile,         \* UTRs_temp.txt
    outFiles,        \* predictor output files, by name (output_file_utr)
    images,          \* saved images, by name (output_file_utr + ".png")
    errorLog,        \* EasyTargetScan_error.log
    clean_utr_id,    \* local of the target loop
    returncode,      \* p.returncode of the last predictor run
    features,        \* local of the target loop
    openFigures,     \* charts opened by record.plot and not yet closed
    status,          \* outcome of each target record
    raised,          \* the exception that left the try body of main(), if any
    exit,            \* how main() ended
    cleanupReports,  \* temp files whose removal failure was printed
    wroteUtrFor,     \* history: targets whose row was written to UTRs_temp.txt
    invokedFor,      \* history: targets the predictor was invoked for
    savedFor         \* history: targets an image was saved for

vars == <<mirs, utrs, predictorRows, pc, mi, ui, seedFile, utrFile, outFiles, images, errorLog,
          clean_utr_id, returncode, features, openFigures, status, raised, exit,
          cleanupReports, wroteUtrFor, invokedFor, savedFor>>

(***************************************************************************)
(* Bounds of the model.                                                    *)
(***************************************************************************)
MaxMirs == 3
MaxUtrs == 2
MaxRows == 2

(***************************************************************************)
(* Program constants.                                                      *)
(***************************************************************************)
seed_size == 7
MinUtrLen == 20
taxon == 10090
output_file == <<"o">>
SeedTemp == "miR_seeds_temp.txt"
UtrTemp == "UTRs_temp.txt"
temp_files == <<SeedTemp, UtrTemp>>

(***************************************************************************)
(* Python helpers.                                                         *)
(***************************************************************************)
Min(a, b) == IF a < b THEN a ELSE b

\* s[a:b] for 0 <= a: never raises, a short s gives a short (or empty) result
Slice(s, a, b) == SubSeq(s, a + 1, Min(b, Len(s)))

SeqsUpTo(S, n) == UNION {[1..k -> S] : k \in 0..n}

Absent == [exists |-> FALSE, rows |-> <<>>]
File(rows) == [exists |-> TRUE, rows |-> rows]

(***************************************************************************)
(* Seed extraction, lines 51-55.                                           *)
(***************************************************************************)
slen == seed_size + 1

mir_seed_from0(sequence) == Slice(sequence, 0, seed_size)

\* Seq(str(miR.seq)[1:slen]); slicing never raises IndexError
mir_seed(sequence) == Slice(sequence, 1, slen)

SeedRow(miR) == [id |-> miR.id, seed |-> mir_seed(miR.seq), taxon |-> taxon]

(***************************************************************************)
(* Identifier sanitization, lines 69-70.                                   *)
(***************************************************************************)
Lower == {"a","b","c","d","e","f","g","h","i","j","k","l","m",
          "n","o","p","q","r","s","t","u","v","w","x","y","z"}
Upper == {"A","B","C","D","E","F","G","H","I","J","K","L","M",
          "N","O","P","Q","R","S","T","U","V","W","X","Y","Z"}
Digit == {"0","1","2","3","4","5","6","7","8","9"}
\* the characters [a-zA-Z0-9_-] of the pattern keeps
SafeChars == Lower \cup Upper \cup Digit \cup {"_", "-"}

SanitizeFirstOnly(id) ==
    [i \in 1..Len(id) |->
        IF id[i] \notin SafeChars /\ (\A j \in 1..(i - 1) : id[j] \in SafeChars)
        THEN "_" ELSE id[i]]

\* re.sub(r'[^a-zA-Z0-9_-]', '_', utr.id)
Sanitize(id) == [i \in 1..Len(id) |-> IF id[i] \in SafeChars THEN id[i] ELSE "_"]

\* f"{clean_utr_id}_{output_file}"
OutputFileUtr(clean) == clean \o <<"_">> \o output_file

\* f"{output_file_utr}.png"
ImageName(name) == name \o <<".", "p", "n", "g">>

UtrRow(utr) == [id |-> utr.id, taxon |-> taxon, seq |-> utr.seq]

(***************************************************************************)
(* Feature parsing, lines 103-120, and get_color, lines 157-163.           *)
(***************************************************************************)
DefaultColor == "#ccccff"

get_color_no_default(seed_match_type) ==
    CASE seed_match_type = "6mer"    -> "#00ff99"
      [] seed_match_type = "7mer-1a" -> "#9999ff"
      [] seed_match_type = "7mer-m8" -> "#ff66cc"
      [] OTHER                       -> "#ff0000"

get_color(seed_match_type) ==
    CASE seed_match_type = "6mer"    -> "#00ff99"
      [] seed_match_type = "7mer-1a" -> "#9999ff"
      [] seed_match_type = "7mer-m8" -> "#ff66cc"
      [] seed_match_type = "8mer-1a" -> "#ff0000"
      [] OTHER                       -> DefaultColor

\* the decimal literals of the model and what int() makes of them
IntLiterals == ("10" :> 10) @@ ("17" :> 17)
IsInt(s) == s \in DOMAIN IntLiterals
int(s) == IntLiterals[s]

\* re.sub(r'mmu-', '', label) on the labels of the model
StripMmu(label) ==
    CASE label = "mmu-miR-1" -> "miR-1"
      [] label = "mmu-let-7" -> "let-7"
      [] OTHER               -> label

RECURSIVE DropLeadingEmpty(_)
DropLeadingEmpty(cols) ==
    IF cols # <<>> /\ Head(cols) = "" THEN DropLeadingEmpty(Tail(cols)) ELSE cols

RECURSIVE DropTrailingEmpty(_)
DropTrailingEmpty(cols) ==
    IF cols # <<>> /\ cols[Len(cols)] = ""
    THEN DropTrailingEmpty(SubSeq(cols, 1, Len(cols) - 1)) ELSE cols

\* line.strip().split("\t") on a line given by its columns: the tabs next to
\* empty columns at either end of the line are whitespace and strip() removes
\* them; an all-blank line splits into one empty column
StripSplit(cols) ==
    LET kept == DropTrailingEmpty(DropLeadingEmpty(cols))
    IN  IF kept = <<>> THEN <<"">> ELSE kept

\* the body of the try at lines 108-117 completes for this content
BuildsFeature(content) ==
    /\ Len(content) >= 9
    /\ IsInt(content[4])
    /\ IsInt(content[5])

GraphicFeature(content) ==
    [start |-> int(content[4]), end |-> int(content[5]), strand |-> 1,
     color |-> get_color(content[9]), label |-> StripMmu(content[2])]

\* one iteration of the loop at line 106: the features the line adds
ParseLine(line) ==
    LET content == StripSplit(line)
    IN  IF BuildsFeature(content) THEN <<GraphicFeature(content)>> ELSE <<>>

\* the loop at lines 106-120 over the lines after the header
RECURSIVE ParseLines(_)
ParseLines(lines) ==
    IF lines = <<>> THEN <<>>
    ELSE ParseLine(Head(lines)) \o ParseLines(Tail(lines))

(***************************************************************************)
(* The inputs of the model.                                                *)
(***************************************************************************)
MirPool ==
    { [id |-> "mmu-miR-e", seq |-> <<"U">>],
      [id |-> "mmu-miR-s", seq |-> <<"U","G","A","G","G","U","A">>],
      [id |-> "mmu-let-7", seq |-> <<"U","G","A","G","G","U","A","G">>],
      [id |-> "mmu-miR-1", seq |-> <<"U","A","G","C","A","G","C","A","C">>] }

Nucleotides(n) ==
    [i \in 1..n |-> CASE i % 4 = 0 -> "A" [] i % 4 = 1 -> "C"
                      [] i % 4 = 2 -> "G" [] OTHER -> "U"]

\* two identifiers that differ only in characters the sanitization replaces,
\* and a record one symbol too short to be scanned
UtrPool ==
    { [id |-> <<"g","|","1",".","2">>, seq |-> Nucleotides(MinUtrLen)],
      [id |-> <<"g",":","1","_","2">>, seq |-> Nucleotides(MinUtrLen + 1)],
      [id |-> <<"s","-","3">>, seq |-> Nucleotides(MinUtrLen - 1)] }

Header == <<"a_Gene_ID", "miRNA_family_ID", "species_ID", "MSA_start", "MSA_end",
            "UTR_start", "UTR_end", "Group_num", "Site_type">>

RowM8 == <<"g", "mmu-miR-1", "10090", "10", "17", "10", "17", "1", "7mer-m8">>
RowBadStart == <<"g", "mmu-miR-1", "10090", "x", "17", "10", "17", "1", "8mer-1a">>
RowShort == <<"g", "mmu-miR-1", "10090", "10", "17", "10", "17", "1">>
RowNoType == <<"g", "mmu-miR-1", "10090", "10", "17", "10", "17", "1", "">>

RowPool == {RowM8, RowBadStart, RowShort, RowNoType}

Row6 == <<"g", "mmu-let-7", "10090", "10", "17", "10", "17", "2", "6mer">>
Row7a == <<"g", "mmu-let-7", "10090", "10", "17", "10", "17", "2", "7mer-1a">>
Row8 == <<"g", "mmu-let-7", "10090", "10", "17", "10", "17", "2", "8mer-1a">>
RowOther == <<"g", "miR-9", "10090", "17", "10", "10", "17", "2", "9mer">>

ColorRows == {RowM8, Row6, Row7a, Row8, RowOther}

\* what the predictor may leave in its output file: nothing at all, or a
\* header line followed by data rows
PredictorOutputs == {<<>>} \cup {<<Header>> \o rows : rows \in SeqsUpTo(predictorRows, MaxRows)}

Outcomes == {"PENDING", "PROCESSING", "SKIPPED", "TOOL_FAILED", "NO_OUTPUT", "FAILED", "DONE"}

\* the state when main() is entered
Start ==
    /\ pc = "open_seed"
    /\ mi = 0
    /\ ui = 0
    /\ seedFile = Absent
    /\ utrFile = Absent
    /\ outFiles = <<>>
    /\ images = <<>>
    /\ errorLog = <<>>
    /\ clean_utr_id = <<>>
    /\ returncode = 0
    /\ features = <<>>
    /\ openFigures = 0
    /\ status = [i \in 1..Len(utrs) |-> "PENDING"]
    /\ raised = "none"
    /\ exit = "running"
    /\ cleanupReports = {}
    /\ wroteUtrFor = {}
    /\ invokedFor = {}
    /\ savedFor = {}

\* batches of targets scanned against one miRNA file
BatchMirs ==
    << [id |-> "mmu-miR-s", seq |-> <<"U","G","A","G","G","U","A">>],
       [id |-> "mmu-miR-1", seq |-> <<"U","A","G","C","A","G","C","A","C">>] >>

Init ==
    /\ mirs = BatchMirs
    /\ utrs \in SeqsUpTo(UtrPool, MaxUtrs)
    /\ predictorRows = RowPool
    /\ Start

\* miRNA files of every content, with a target file that holds no record
InitSeeds ==
    /\ mirs \in SeqsUpTo(MirPool, MaxMirs)
    /\ utrs = <<>>
    /\ predictorRows = RowPool
    /\ Start

\* one target at most, and a predictor that reports every match type
InitColors ==
    /\ mirs = BatchMirs
    /\ utrs \in SeqsUpTo(UtrPool, 1)
    /\ predictorRows = ColorRows
    /\ Start

utr == utrs[ui]
output_file_utr == OutputFileUtr(clean_utr_id)

inputs == <<mirs, utrs, predictorRows>>
seedVars == <<mi, seedFile>>
jobLocals == <<clean_utr_id, returncode, features>>

\* the locals of an iteration are dead once it ends: every one of them is
\* assigned again before the next iteration reads it
ResetLocals ==
    /\ clean_utr_id' = <<>>
    /\ returncode' = 0
    /\ features' = <<>>
history == <<wroteUtrFor, invokedFor, savedFor>>
endVars == <<exit, cleanupReports>>

(***************************************************************************)
(* Seed extraction, lines 50-58.                                           *)
(***************************************************************************)
\* line 50: open("miR_seeds_temp.txt", 'w')
OpenSeedFile ==
    /\ pc = "open_seed"
    /\ \/ /\ seedFile' = File(<<>>)
          /\ pc' = "seed_loop"
          /\ UNCHANGED raised
       \/ /\ raised' = "seed_open"
          /\ pc' = "cleanup"
          /\ UNCHANGED seedFile
    /\ UNCHANGED <<inputs, mi, ui, utrFile, outFiles, images, errorLog, jobLocals,
                   openFigures, status, history, endVars>>

\* lines 52-55: one record, its seed, its row
WriteSeed ==
    /\ pc = "seed_loop"
    /\ mi < Len(mirs)
    /\ mi' = mi + 1
    /\ \/ /\ seedFile' = File(Append(seedFile.rows, SeedRow(mirs[mi + 1])))
          /\ UNCHANGED <<pc, raised>>
       \/ /\ raised' = "seed_write"
          /\ pc' = "cleanup"
          /\ UNCHANGED seedFile
    /\ UNCHANGED <<inputs, ui, utrFile, outFiles, images, errorLog, jobLocals,
                   openFigures, status, history, endVars>>

\* line 52: the reader raises instead of yielding a record or stopping
MirIterRaises ==
    /\ pc = "seed_loop"
    /\ raised' = "mir_iter"
    /\ pc' = "cleanup"
    /\ UNCHANGED <<inputs, seedVars, ui, utrFile, outFiles, images, errorLog, jobLocals,
                   openFigures, status, history, endVars>>

SeedsDoneEarly ==
    /\ pc = "seed_loop"
    /\ pc' = "utr_loop"
    /\ UNCHANGED <<inputs, seedVars, ui, utrFile, outFiles, images, errorLog, jobLocals,
                   openFigures, status, raised, history, endVars>>

\* line 52: the reader is exhausted; the with block closes the file
SeedsDone ==
    /\ pc = "seed_loop"
    /\ mi = Len(mirs)
    /\ pc' = "utr_loop"
    /\ UNCHANGED <<inputs, seedVars, ui, utrFile, outFiles, images, errorLog, jobLocals,
                   openFigures, status, raised, history, endVars>>

(***************************************************************************)
(* The target loop, lines 61-145.                                          *)
(***************************************************************************)
SetStatus(outcome) == [status EXCEPT ![ui] = outcome]

\* line 61: the reader yields the next target record
NextUtr ==
    /\ pc = "utr_loop"
    /\ ui < Len(utrs)
    /\ ui' = ui + 1
    /\ status' = [status EXCEPT ![ui + 1] = "PROCESSING"]
    /\ pc' = "job"
    /\ UNCHANGED <<inputs, seedVars, utrFile, outFiles, images, errorLog, jobLocals,
                   openFigures, raised, history, endVars>>

\* line 61: the reader raises instead of yielding a record or stopping; this
\* is outside the try of line 62
UtrIterRaises ==
    /\ pc = "utr_loop"
    /\ raised' = "utr_iter"
    /\ pc' = "cleanup"
    /\ UNCHANGED <<inputs, seedVars, ui, utrFile, outFiles, images, errorLog, jobLocals,
                   openFigures, status, history, endVars>>

\* line 61: the reader is exhausted
UtrsDone ==
    /\ pc = "utr_loop"
    /\ ui = Len(utrs)
    /\ pc' = "cleanup"
    /\ UNCHANGED <<inputs, seedVars, ui, utrFile, outFiles, images, errorLog, jobLocals,
                   openFigures, status, raised, history, endVars>>

TooShort18(record) == Len(record.seq) < MinUtrLen - 1

\* line 64
TooShort(record) == Len(record.seq) < MinUtrLen

\* lines 64-66: a short target is skipped
SkipShort ==
    /\ pc = "job"
    /\ TooShort(utr)
    /\ status' = SetStatus("SKIPPED")
    /\ pc' = "utr_loop"
    /\ ResetLocals
    /\ UNCHANGED <<inputs, seedVars, ui, utrFile, outFiles, images, errorLog, openFigures, raised, history, endVars>>

WriteUtrTableAppending ==
    /\ pc = "job"
    /\ ~TooShort(utr)
    /\ clean_utr_id' = Sanitize(utr.id)
    /\ \/ /\ utrFile' = File(Append(utrFile.rows, UtrRow(utr)))
          /\ wroteUtrFor' = wroteUtrFor \cup {ui}
          /\ pc' = "invoke"
       \/ /\ pc' = "except"
          /\ UNCHANGED <<utrFile, wroteUtrFor>>
    /\ UNCHANGED <<inputs, seedVars, ui, outFiles, images, errorLog, returncode, features,
                   openFigures, status, raised, invokedFor, savedFor, endVars>>

\* lines 69-74: the output name, then the one-row target table
WriteUtrTable ==
    /\ pc = "job"
    /\ ~TooShort(utr)
    /\ clean_utr_id' = Sanitize(utr.id)
    /\ \/ /\ utrFile' = File(<<UtrRow(utr)>>)
          /\ wroteUtrFor' = wroteUtrFor \cup {ui}
          /\ pc' = "invoke"
       \/ /\ pc' = "except"
          /\ UNCHANGED <<utrFile, wroteUtrFor>>
    /\ UNCHANGED <<inputs, seedVars, ui, outFiles, images, errorLog, returncode, features,
                   openFigures, status, raised, invokedFor, savedFor, endVars>>

\* lines 77-88: the predictor runs to its end; it exits with some status and
\* has or has not written the file named by its third argument
InvokePredictor ==
    /\ pc = "invoke"
    /\ invokedFor' = invokedFor \cup {ui}
    /\ \E rc \in {0, 1} : returncode' = rc
    /\ \/ UNCHANGED outFiles
       \/ \E rows \in PredictorOutputs :
            outFiles' = (output_file_utr :> [rows |-> rows, by |-> ui]) @@ outFiles
    /\ pc' = "check"
    /\ UNCHANGED <<inputs, seedVars, ui, utrFile, images, errorLog, clean_utr_id, features,
                   openFigures, status, raised, wroteUtrFor, savedFor, endVars>>

\* lines 91-95
PredictorFailed ==
    /\ pc = "check"
    /\ returncode # 0
    /\ status' = SetStatus("TOOL_FAILED")
    /\ pc' = "utr_loop"
    /\ ResetLocals
    /\ UNCHANGED <<inputs, seedVars, ui, utrFile, outFiles, images, errorLog, openFigures, raised, history, endVars>>

\* lines 98-100
OutputMissing ==
    /\ pc = "check"
    /\ returncode = 0
    /\ output_file_utr \notin DOMAIN outFiles
    /\ status' = SetStatus("NO_OUTPUT")
    /\ pc' = "utr_loop"
    /\ ResetLocals
    /\ UNCHANGED <<inputs, seedVars, ui, utrFile, outFiles, images, errorLog, openFigures, raised, history, endVars>>

ParseOutputIgnoringStatus ==
    /\ pc = "check"
    /\ output_file_utr \in DOMAIN outFiles
    /\ LET lines == outFiles[output_file_utr].rows
       IN  \/ /\ lines = <<>>
              /\ features' = <<>>
              /\ pc' = "except"
           \/ /\ lines # <<>>
              /\ features' = ParseLines(Tail(lines))
              /\ pc' = "render"
    /\ UNCHANGED <<inputs, seedVars, ui, utrFile, outFiles, images, errorLog, clean_utr_id,
                   returncode, openFigures, status, raised, history, endVars>>

\* lines 103-120: next(fp) raises StopIteration on a file without lines
ParseOutput ==
    /\ pc = "check"
    /\ returncode = 0
    /\ output_file_utr \in DOMAIN outFiles
    /\ LET lines == outFiles[output_file_utr].rows
       IN  \/ /\ lines = <<>>
              /\ features' = <<>>
              /\ pc' = "except"
           \/ /\ lines # <<>>
              /\ features' = ParseLines(Tail(lines))
              /\ pc' = "render"
    /\ UNCHANGED <<inputs, seedVars, ui, utrFile, outFiles, images, errorLog, clean_utr_id,
                   returncode, openFigures, status, raised, history, endVars>>

\* lines 123-141: record.plot opens a chart; the image is saved and the chart
\* closed, or savefig raises and line 141 is not reached
Render ==
    /\ pc = "render"
    /\ \/ /\ images' = (ImageName(output_file_utr) :> [features |-> features]) @@ images
          /\ savedFor' = savedFor \cup {ui}
          /\ status' = SetStatus("DONE")
          /\ pc' = "utr_loop"
          /\ ResetLocals
          /\ UNCHANGED openFigures
       \/ /\ openFigures' = openFigures + 1
          /\ pc' = "except"
          /\ UNCHANGED <<images, savedFor, status, jobLocals>>
    /\ UNCHANGED <<inputs, seedVars, ui, utrFile, outFiles, errorLog, raised,
                   wroteUtrFor, invokedFor, endVars>>

HandleJobErrorTruncating ==
    /\ pc = "except"
    /\ status' = SetStatus("FAILED")
    /\ \/ /\ errorLog' = <<[utr |-> utr.id]>>
          /\ pc' = "utr_loop"
          /\ UNCHANGED raised
       \/ /\ raised' = "log_error"
          /\ pc' = "cleanup"
          /\ UNCHANGED errorLog
    /\ ResetLocals
    /\ UNCHANGED <<inputs, seedVars, ui, utrFile, outFiles, images, openFigures,
                   history, endVars>>

\* lines 143-145 and log_error, lines 24-28: the entry is appended, or opening
\* the log raises inside the handler and the exception leaves the loop
HandleJobError ==
    /\ pc = "except"
    /\ status' = SetStatus("FAILED")
    /\ \/ /\ errorLog' = Append(errorLog, [utr |-> utr.id])
          /\ pc' = "utr_loop"
          /\ UNCHANGED raised
       \/ /\ raised' = "log_error"
          /\ pc' = "cleanup"
          /\ UNCHANGED errorLog
    /\ ResetLocals
    /\ UNCHANGED <<inputs, seedVars, ui, utrFile, outFiles, images, openFigures,
                   history, endVars>>

(***************************************************************************)
(* The finally block, lines 147-155, and the end of main().                *)
(***************************************************************************)
RemovedNever(file, fails) == file

\* lines 151-155 for one file, given whether os.remove fails
Removed(file, fails) == IF file.exists /\ ~fails THEN Absent ELSE file
Reported(name, file, fails) == IF file.exists /\ fails THEN {name} ELSE {}

Cleanup ==
    /\ pc = "cleanup"
    /\ \E seedFails \in BOOLEAN, utrFails \in BOOLEAN :
          /\ seedFile' = Removed(seedFile, seedFails)
          /\ utrFile' = Removed(utrFile, utrFails)
          /\ cleanupReports' = Reported(SeedTemp, seedFile, seedFails)
                                  \cup Reported(UtrTemp, utrFile, utrFails)
    /\ exit' = IF raised = "none" THEN "ok" ELSE "exception"
    /\ pc' = "done"
    /\ UNCHANGED <<inputs, mi, ui, outFiles, images, errorLog, jobLocals, openFigures,
                   status, raised, history>>

Next ==
    \/ OpenSeedFile
    \/ WriteSeed
    \/ MirIterRaises
    \/ SeedsDone
    \/ NextUtr
    \/ UtrIterRaises
    \/ UtrsDone
    \/ SkipShort
    \/ WriteUtrTable
    \/ InvokePredictor
    \/ PredictorFailed
    \/ OutputMissing
    \/ ParseOutput
    \/ Render
    \/ HandleJobError
    \/ Cleanup

Spec == Init /\ [][Next]_vars

\* the steps main() takes when the target file holds no record
NextSeeds ==
    \/ OpenSeedFile
    \/ WriteSeed
    \/ MirIterRaises
    \/ SeedsDone
    \/ UtrIterRaises
    \/ UtrsDone
    \/ Cleanup

SpecSeeds == InitSeeds /\ [][NextSeeds]_vars

SpecColors == InitColors /\ [][Next]_vars

(***************************************************************************)
(* Properties.                                                             *)
(***************************************************************************)
\* the exceptions that are not the failure of a job: they come from the
\* seed extraction or from the reader of the target file
OutsideJobs == {"seed_open", "seed_write", "mir_iter", "utr_iter"}

DoneJobs == {i \in 1..Len(utrs) : status[i] = "DONE"}

\* C1 as stated: when main() has finished, on any path, neither temp file
\* exists.
C1_TempFilesAbsent ==
    pc = "done" => ~seedFile.exists /\ ~utrFile.exists

\* C1 as amended: when main() has finished, on any path, a temp file exists
\* only if its removal failed, and that failure was reported.
C1_TempFilesAbsentOrReported ==
    pc = "done" =>
        /\ seedFile.exists => SeedTemp \in cleanupReports
        /\ utrFile.exists => UtrTemp \in cleanupReports

\* a run with a failed job and a written target table that ended with both
\* temp files removed
C1_Witness ==
    /\ pc = "done"
    /\ wroteUtrFor # {}
    /\ \E i \in 1..Len(utrs) : status[i] = "FAILED"
    /\ ~seedFile.exists
    /\ ~utrFile.exists

\* C2: the failure of one target's job never aborts the batch: unless the
\* seed extraction or the reader of the target file raised, main() ends with
\* every target record visited.
C2_JobFailureNeverAbortsBatch ==
    (pc = "done" /\ raised \notin OutsideJobs) =>
        \A i \in 1..Len(utrs) : status[i] # "PENDING"

\* C3: a miRNA record shorter than seed_size+1 gets no row in the seed table.
C3_ShortMirSkipped ==
    \A k \in 1..Len(seedFile.rows) : \A i \in 1..Len(mirs) :
        mirs[i].id = seedFile.rows[k].id => Len(mirs[i].seq) >= seed_size + 1

\* the symbols 2..seed_size+1 of a sequence of at least seed_size+1 symbols
SeedSymbols(sequence) == [k \in 1..seed_size |-> sequence[k + 1]]

\* the rows the first n records are to have, in stream order
RECURSIVE RowsOfLongMirs(_)
RowsOfLongMirs(n) ==
    IF n = 0 THEN <<>>
    ELSE IF Len(mirs[n].seq) >= seed_size + 1
         THEN Append(RowsOfLongMirs(n - 1),
                     [id |-> mirs[n].id, seed |-> SeedSymbols(mirs[n].seq), taxon |-> taxon])
         ELSE RowsOfLongMirs(n - 1)

HasFullSeed(row) == Len(row.seed) = seed_size

\* C4: while the seed table is written and once it is complete, its rows with
\* a full seed are exactly one row (id, sequence[1:seed_size+1], taxon) per
\* record of at least seed_size+1 symbols read so far, in stream order.
C4_OneRowPerLongMir ==
    pc \in {"seed_loop", "utr_loop"} =>
        SelectSeq(seedFile.rows, HasFullSeed) = RowsOfLongMirs(mi)

\* the seed table is complete and holds the rows of two different long
\* records with a short record read before the second
C4_Witness ==
    /\ pc = "utr_loop"
    /\ Len(RowsOfLongMirs(mi)) >= 2
    /\ RowsOfLongMirs(mi)[1] # RowsOfLongMirs(mi)[2]
    /\ Len(mirs[mi].seq) >= seed_size + 1
    /\ \E i \in 1..(mi - 1) : Len(mirs[i].seq) < seed_size + 1

\* C5: a target record of fewer than 20 symbols gets no job and no artifact:
\* its row is never written to the target table, the predictor is never
\* invoked for it and no image is saved for it.
C5_ShortTargetNoArtifact ==
    \A i \in 1..ui :
        Len(utrs[i].seq) < 20 =>
            /\ i \notin wroteUtrFor \cup invokedFor \cup savedFor
            /\ status[i] \in {"PROCESSING", "SKIPPED"}

\* a short target was skipped in a batch that also has a finished job
C5_Witness ==
    /\ \E i \in 1..ui : Len(utrs[i].seq) < 20 /\ status[i] = "SKIPPED"
    /\ DoneJobs # {}

DistinctIds == \A i, j \in 1..Len(utrs) : utrs[i].id = utrs[j].id => i = j

\* C6: after a batch of targets with pairwise different identifiers that ran
\* to its end there are as many image files as DONE jobs.
C6_OneImagePerDoneJob ==
    (pc = "done" /\ raised = "none" /\ DistinctIds) =>
        Cardinality(DOMAIN images) = Cardinality(DoneJobs)

\* a data row as the claim reads it: at least 9 tab-separated columns, with
\* integers in columns 4 and 5
WellFormedRow(line) == Len(line) >= 9 /\ IsInt(line[4]) /\ IsInt(line[5])

RECURSIVE FeaturesOfWellFormedRows(_)
FeaturesOfWellFormedRows(lines) ==
    IF lines = <<>> THEN <<>>
    ELSE (IF WellFormedRow(Head(lines)) THEN <<GraphicFeature(Head(lines))>> ELSE <<>>)
            \o FeaturesOfWellFormedRows(Tail(lines))

\* C7: the parsed features are one feature per well-formed data row, in file
\* order, and nothing for the other rows.
C7_OneFeaturePerWellFormedRow ==
    pc = "render" =>
        features = FeaturesOfWellFormedRows(Tail(outFiles[output_file_utr].rows))

\* C8: whatever the outcomes of the jobs, main() ends without an uncaught
\* exception.
C8_ExitSuccess ==
    (pc = "done" /\ raised \notin OutsideJobs) => exit = "ok"

\* C9: when a job begins, no chart of an earlier job is open.
C9_NoChartOpenAtJobStart ==
    pc = "job" => openFigures = 0

\* C10: a sanitized identifier has only characters of [A-Za-z0-9_-] and
\* sanitizing it again changes nothing.
C10_SanitizeIdempotent ==
    clean_utr_id # <<>> =>
        /\ \A k \in 1..Len(clean_utr_id) : clean_utr_id[k] \in SafeChars
        /\ Sanitize(clean_utr_id) = clean_utr_id

\* a job whose identifier the sanitization changed in two places
C10_Witness ==
    /\ pc = "invoke"
    /\ Cardinality({k \in 1..Len(utr.id) : clean_utr_id[k] # utr.id[k]}) >= 2

\* the colour the claim gives each match type
ClaimedColor(type) ==
    IF type = "6mer" THEN "#00ff99"
    ELSE IF type = "7mer-1a" THEN "#9999ff"
    ELSE IF type = "7mer-m8" THEN "#ff66cc"
    ELSE IF type = "8mer-1a" THEN "#ff0000"
    ELSE "#ccccff"

ParsedRows == Tail(outFiles[output_file_utr].rows)

\* C11: parsing never fails on a match type: every data row with 9 columns
\* and integer coordinates gives a feature of the colour of its match type,
\* the fallback colour #ccccff for a type outside the table; and a file of a
\* header and the row (start 10, end 17, 7mer-m8) gives exactly one feature
\* with start 10, end 17, colour #ff66cc.
C11_GetColorTotal ==
    (pc = "render" /\ \A k \in 1..Len(ParsedRows) : ParsedRows[k] \in ColorRows) =>
        /\ Len(features) = Len(ParsedRows)
        /\ \A k \in 1..Len(features) : features[k].color = ClaimedColor(ParsedRows[k][9])
        /\ ParsedRows = <<RowM8>> =>
              /\ Len(features) = 1
              /\ features[1].start = 10
              /\ features[1].end = 17
              /\ features[1].color = "#ff66cc"

\* a file with a row of an unknown match type and the row of the claim's
\* example was parsed
C11_Witness ==
    /\ pc = "render"
    /\ ParsedRows = <<RowOther, RowM8>>
    /\ features[1].color = "#ccccff"
    /\ features[2] = [start |-> 10, end |-> 17, strand |-> 1, color |-> "#ff66cc",
                      label |-> "miR-1"]

\* C12: every seed in the seed table has exactly seed_size + 1 symbols (a
\* record that cannot give such a seed has no row).
C12_SeedLength ==
    \A k \in 1..Len(seedFile.rows) : Len(seedFile.rows[k].seed) = seed_size + 1
\* C13: the run goes INIT -> SEED_EXTRACTED -> jobs -> CLEANUP -> TERMINAL.
\* The seed table is opened once and changes only during the seed extraction
\* and in the cleanup; the predictor is invoked only when the table holds the
\* row of every miRNA record; the cleanup is entered from the loops only, is
\* followed by the end of main() and by no job.
C13_RunOrder ==
    [][ /\ pc' # "open_seed"
        /\ seedFile' # seedFile => pc \in {"open_seed", "seed_loop", "cleanup"}
        /\ invokedFor' # invokedFor =>
              /\ seedFile.exists
              /\ mi = Len(mirs)
              /\ Len(seedFile.rows) = Len(mirs)
        /\ pc' = "cleanup" => pc \in {"open_seed", "seed_loop", "utr_loop", "except"}
        /\ pc = "cleanup" =>
              /\ pc' = "done"
              /\ status' = status
              /\ invokedFor' = invokedFor
        /\ pc # "done" ]_vars

\* a batch of two jobs ran to its end and the cleanup removed the seed table
C13_Witness ==
    /\ pc = "done"
    /\ raised = "none"
    /\ Cardinality(invokedFor) = 2
    /\ ~seedFile.exists
\* C14: when the predictor is about to be invoked for a target, the target
\* table holds exactly one row, (id, taxon, full sequence) of that target, and
\* the predictor has been invoked for no later target and for every earlier
\* target at most once, to its end.
C14_OneRowTargetTable ==
    pc = "invoke" =>
        /\ utrFile.exists
        /\ utrFile.rows = <<[id |-> utrs[ui].id, taxon |-> 10090, seq |-> utrs[ui].seq]>>
        /\ invokedFor \subseteq 1..(ui - 1)

\* the second job is about to invoke the predictor after the first job wrote
\* the row of a different target
C14_Witness ==
    /\ pc = "invoke"
    /\ ui = 2
    /\ 1 \in wroteUtrFor
    /\ utrs[1] # utrs[2]
\* C15: when the predictor has exited with a non-zero status, or with zero
\* while the job's output file does not exist, the next step ends the job:
\* no file is read, nothing is rendered, no image is written and nothing is
\* logged.
C15_ToolFailureEndsJob ==
    [][ (pc = "check" /\ (returncode # 0 \/ output_file_utr \notin DOMAIN outFiles)) =>
            /\ pc' = "utr_loop"
            /\ status'[ui] \in {"TOOL_FAILED", "NO_OUTPUT"}
            /\ features' = <<>>
            /\ images' = images
            /\ savedFor' = savedFor
            /\ openFigures' = openFigures
            /\ errorLog' = errorLog ]_vars

\* a batch with a job ended by a non-zero exit and a job ended by a missing
\* output file
C15_Witness ==
    \E i, j \in 1..ui : status[i] = "TOOL_FAILED" /\ status[j] = "NO_OUTPUT"
\* C16: the features a job is about to draw, and to end DONE with, were
\* parsed from the output file that the predictor wrote during this job's
\* own invocation.
C16_FreshOutputOnly ==
    pc = "render" => outFiles[output_file_utr].by = ui
FailedOnEmptyOutput ==
    /\ pc = "except"
    /\ ui \in invokedFor
    /\ returncode = 0
    /\ output_file_utr \in DOMAIN outFiles
    /\ outFiles[output_file_utr].rows = <<>>

\* the job is about to render a file that holds a header line only
RendersHeaderOnly ==
    /\ pc = "render"
    /\ Len(outFiles[output_file_utr].rows) = 1

\* C18: after an exit status 0 with an existing output file, a file of a
\* header line only gives zero features and, once its image is saved, a DONE
\* job whose image has zero features; a file without lines gives a FAILED
\* job, one more entry in the error log and no image; in both cases the loop
\* goes on to the next target.
C18_OutcomeByLineCount ==
    [][ /\ RendersHeaderOnly =>
              /\ features = <<>>
              /\ savedFor' # savedFor =>
                    /\ status'[ui] = "DONE"
                    /\ images'[ImageName(output_file_utr)].features = <<>>
                    /\ pc' = "utr_loop"
        /\ FailedOnEmptyOutput =>
              /\ status'[ui] = "FAILED"
              /\ Len(errorLog') = Len(errorLog) + 1
              /\ images' = images
              /\ pc' = "utr_loop" ]_vars
====
